---- MODULE Spec2Model ----
(***************************************************************************)
(* HotBottle: the Home page (motion classifier, debounced pour sound,      *)
(* start/permission flow) and the Scene component (its frame loop, model   *)
(* load and cleanup, in its variants) as a state machine.                  *)
(*                                                                         *)
(* Numbers.  Gravity components are fixed-point hundredths (100 = 1.0).    *)
(* Times are milliseconds: now is performance.now(), now + WallEpoch is    *)
(* Date.now().  An angle atan2(a, b) with b >= 0 is held by the sign of a  *)
(* and the squares a^2 = a2/den, b^2 = b2/den, so that a comparison with   *)
(* 60 degrees is the exact comparison a > 0 /\ a^2 > tan^2(60) * b^2.      *)
(***************************************************************************)
EXTENDS Integers, Sequences, FiniteSets, TLC

\* ---------------------------------------------------------------- bounds
MaxActivations == 2      \* start-button activations in one session
MaxWindows == 1          \* stillness windows whose boundaries are explored
WallEpoch == 5000        \* Date.now() when performance.now() is 0
MaxGrid == 5             \* SpecPitch: components range over -MaxGrid..MaxGrid
MaxStarts == 3           \* SpecScenario: further instants of the first sample
MaxFrames == 4           \* frames of the Scene's loop in one behaviour

\* ------------------------------------------------------ program constants
StillWindow == 120       \* now - lastStillCheck > 120
StillThreshold == 25     \* delta < 0.25, in hundredths
PlayDebounce == 1000     \* now - lastPlayRef.current < 1000
PourTan2 == 3            \* pitchDeg > 60: tan^2(60 deg) = 3

\* The instants of performance.now() at which devicemotion events arrive: on
\* and just past each stillness window boundary and the debounce boundary.
Instants == {k * StillWindow + j : k \in 1..MaxWindows, j \in 0..1}
            \cup {0, PlayDebounce}

VARIABLES
  env,        \* the platform: which page variant runs, which APIs exist
  mounted,    \* Home is on screen
  started,    \* useState(false)
  audioRef,   \* audioRef.current is an element
  audioCtxRef,\* audioCtxRef.current is a context
  lastPlayRef,\* lastPlayRef.current
  lastGRef,   \* lastGRef.current
  stillRef,   \* stillRef.current
  calls,      \* the startSensors invocations, in order of their click
  listeners,  \* window's devicemotion listeners, in order of registration
  now,        \* performance.now() at the latest event a listener handled
  motionRequests, \* calls of DeviceMotionEvent.requestPermission so far
  alerts,     \* alert() calls so far
  pendingPlays, \* el.play() promises not yet settled
  playingRef, \* playingRef.current (page.tsx only)
  beeps,      \* fallback tones started
  lastWrite,  \* time of the last write to stillRef.current, -1 before any
  lastAttempt,\* Date.now() of the last playback attempt, -1 before any
  sinceCheck, \* the samples since the last write to stillRef.current
  lastEvt,    \* what the latest devicemotion dispatch did
  fed,        \* SpecScenario: samples of the end-to-end scenario fed so far
  plays,      \* el.play() promises that resolved (the sound file played)
  scene       \* the Scene component: the locals of its effect and its output

vars == <<env, mounted, started, audioRef, audioCtxRef, lastPlayRef, lastGRef,
          stillRef, calls, listeners, now, motionRequests, alerts,
          pendingPlays, playingRef, beeps, lastWrite, lastAttempt,
          sinceCheck, lastEvt, fed, plays, scene>>

refs == <<lastGRef, stillRef, lastPlayRef, listeners>>

\* Everything of Home, which the Scene's callbacks leave alone.
pageVars == <<env, mounted, started, audioRef, audioCtxRef, lastPlayRef,
              lastGRef, stillRef, calls, listeners, now, motionRequests,
              alerts, pendingPlays, playingRef, beeps, lastWrite,
              lastAttempt, sinceCheck, lastEvt, fed, plays>>

\* ------------------------------------------------------------- vectors
Abs(n) == IF n < 0 THEN -n ELSE n

Sgn(n) == IF n < 0 THEN -1 ELSE IF n > 0 THEN 1 ELSE 0

GVec(x, y, z) == [x |-> x, y |-> y, z |-> z]

ZeroVec == GVec(0, 0, 0)

\* A component of accelerationIncludingGravity: <<>> is null, <<v>> is v.
Null == <<>>

Num(v) == <<v>>

\* e.accelerationIncludingGravity: absent, or an object of three components.
NoAg == [present |-> FALSE, x |-> Null, y |-> Null, z |-> Null]

Ag(x, y, z) == [present |-> TRUE, x |-> x, y |-> y, z |-> z]

\* |dx| + |dy| + |dz|
Delta(g, h) == Abs(g.x - h.x) + Abs(g.y - h.y) + Abs(g.z - h.z)

\* c ?? 0
Coalesce(c) == IF c = Null THEN 0 ELSE c[1]

\* magnitude(g)^2: the squared value stands for Math.sqrt's result.
magnitudeSq(g) == g.x * g.x + g.y * g.y + g.z * g.z

computePitchRoll_sign(g) ==
  LET m2 == IF magnitudeSq(g) = 0 THEN 1 ELSE magnitudeSq(g)
  IN [nan |-> FALSE, sgn |-> Sgn(g.x), a2 |-> g.x * g.x,
      b2 |-> g.y * g.y + g.z * g.z, den |-> m2]

\* pitchRad = atan2(-gx, sqrt(gy^2 + gz^2)) with gx = g.x / m and so on:
\* sgn is the sign of -gx, a2/den = gx^2, b2/den = gy^2 + gz^2. nan: 0/0.
computePitchRoll(g) ==
  LET m2 == IF magnitudeSq(g) = 0 THEN 1 ELSE magnitudeSq(g)
  IN [nan |-> m2 = 0, sgn |-> Sgn(-g.x), a2 |-> g.x * g.x,
      b2 |-> g.y * g.y + g.z * g.z, den |-> m2]

NoPitch == [nan |-> FALSE, sgn |-> 0, a2 |-> 0, b2 |-> 0, den |-> 1]

\* pitchDeg > 60 (a comparison with NaN is false).
PitchOver60(p) ==
  /\ ~p.nan
  /\ p.sgn > 0
  /\ p.a2 * p.den > PourTan2 * p.b2 * p.den

\* pitchDeg = 0: atan2(0, b) for b >= 0.
PitchIsZero(p) == ~p.nan /\ p.sgn = 0

\* pitchDeg = 90: atan2(a, 0) for a > 0.
PitchIs90(p) == ~p.nan /\ p.sgn > 0 /\ p.b2 = 0 /\ p.a2 > 0

\* ------------------------------------------------------------ platform
Variants == {"page", "part_000"}

\* requestPermission exists on iOS Safari 13+, for both event classes at once.
Envs == {v \in [variant : Variants, audioCtor : BOOLEAN, motionPerm : BOOLEAN,
                orientPerm : BOOLEAN] : v.orientPerm = v.motionPerm}

\* Date.now() when performance.now() is t.
Wall(t) == t + WallEpoch

\* ------------------------------------------------------------ playPour
\* The synchronous part of playPour on the refs record r at Date.now() = w:
\* the debounce, the timestamp, and the start of el.play() or the fallback.
playPour_lte(r, w) ==
  IF w - r.lastPlay <= PlayDebounce THEN r
  ELSE [r EXCEPT !.lastPlay = w, !.attempt = w, !.attempted = @ + 1,
                 !.pending = IF r.el THEN @ + 1 ELSE @,
                 !.beeps = IF ~r.el /\ r.ctx THEN @ + 1 ELSE @]

playPour(r, w) ==
  IF w - r.lastPlay < PlayDebounce THEN r
  ELSE [r EXCEPT !.lastPlay = w, !.attempt = w, !.attempted = @ + 1,
                 !.pending = IF r.el THEN @ + 1 ELSE @,
                 !.beeps = IF ~r.el /\ r.ctx THEN @ + 1 ELSE @]

\* ------------------------------------------------------------ onMotion
onMotion_discardNull(r, i, e, t, w) ==
  IF ~e.present \/ Null \in {e.x, e.y, e.z} THEN r
  ELSE
    LET g == GVec(Coalesce(e.x), Coalesce(e.y), Coalesce(e.z))
        delta == Delta(g, r.lastG)
        r1 == [r EXCEPT !.lastG = g, !.handled = @ + 1]
        r2 == IF t - r.lsc[i] > StillWindow
              THEN [r1 EXCEPT !.still = delta < StillThreshold,
                              !.lsc[i] = t,
                              !.write = t,
                              !.wrote = @ + 1]
              ELSE r1
        p == computePitchRoll(g)
        pouring == PitchOver60(p)
        r3 == [r2 EXCEPT !.pitch = p, !.pouring = pouring]
    IN IF pouring THEN playPour(r3, w) ELSE r3

\* Listener i handles payload e at performance.now() = t, Date.now() = w.
onMotion(r, i, e, t, w) ==
  IF ~e.present THEN r
  ELSE
    LET g == GVec(Coalesce(e.x), Coalesce(e.y), Coalesce(e.z))
        delta == Delta(g, r.lastG)
        r1 == [r EXCEPT !.lastG = g, !.handled = @ + 1]
        r2 == IF t - r.lsc[i] > StillWindow
              THEN [r1 EXCEPT !.still = delta < StillThreshold,
                              !.lsc[i] = t,
                              !.write = t,
                              !.wrote = @ + 1]
              ELSE r1
        p == computePitchRoll(g)
        pouring == PitchOver60(p)
        r3 == [r2 EXCEPT !.pitch = p, !.pouring = pouring]
    IN IF pouring THEN playPour(r3, w) ELSE r3

\* The browser calls the listeners in their order of registration.
RECURSIVE Dispatch(_, _, _, _, _)
Dispatch(r, i, e, t, w) ==
  IF i > Len(r.lsc) THEN r
  ELSE Dispatch(onMotion(r, i, e, t, w), i + 1, e, t, w)

\* --------------------------------------------------------------- Scene
\* The Scene component in its variants: "image" is Scene.tsx (the image
\* sequence), "bottle" the procedural bottle of part_001, "glb" the loaded
\* model of part_002. Times of the image sequence are thirds of a
\* millisecond, so that frameDur = 1000 / FPS is the integer 125.
FRAME_COUNT == 16
FPS == 24
frameDur == (3 * 1000) \div FPS

SceneKinds == {"image", "bottle", "glb"}

\* Math.sin(t) * 0.03 in hundredths at the quarter periods of the clock.
Bob(phase) == IF phase % 4 = 1 THEN 3 ELSE IF phase % 4 = 3 THEN -3 ELSE 0

\* Before the effect has run. raf, last, acc, frame: the effect's locals;
\* queued: the callbacks the browser holds; objects: the scene graph; live:
\* the resources created and not disposed; rot, posY: the model's (bottle's)
\* rotation in steps and its offset from the baseline in hundredths; prot:
\* the placeholder's rotation in steps; asked, saw, rendered, late: whether
\* the latest frame called getIsStill, what it returned, whether it rendered,
\* and whether a frame has run after cleanup.
NoScene ==
  [kind |-> "none", phase |-> "unset", raf |-> 0, handles |-> 0,
   queued |-> {}, frames |-> 0, late |-> FALSE, asked |-> FALSE,
   saw |-> FALSE, rendered |-> FALSE, load |-> "none", loads |-> 0,
   logged |-> 0, model |-> FALSE, objects |-> {}, live |-> {}, rot |-> 0,
   posY |-> 0, prot |-> 0, after |-> 0, last |-> 0, acc |-> 0, frame |-> 0,
   src |-> 0, advances |-> 0]

\* raf = requestAnimationFrame(cb): a fresh handle, queued by the browser.
requestAnimationFrame_noStore(s) ==
  [s EXCEPT !.handles = @ + 1, !.queued = @ \cup {s.handles + 1}]

requestAnimationFrame(s) ==
  [s EXCEPT !.handles = @ + 1, !.raf = s.handles + 1,
            !.queued = @ \cup {s.handles + 1}]

cancelAnimationFrame(s, h) == [s EXCEPT !.queued = @ \ {h}]

\* What every frame records about itself.
Ran(s) ==
  [s EXCEPT !.frames = @ + 1,
            !.late = @ \/ s.phase = "torn",
            !.after = IF s.load \in {"loaded", "failed"} THEN @ + 1 ELSE @]

\* Scene.tsx: while (acc >= frameDur) { ... }
RECURSIVE CatchUp(_)
CatchUp(s) ==
  IF s.acc >= frameDur
  THEN CatchUp([s EXCEPT !.acc = @ - frameDur,
                         !.frame = (@ + 1) % FRAME_COUNT,
                         !.src = IF s.phase = "live"
                                 THEN (s.frame + 1) % FRAME_COUNT ELSE @,
                         !.advances = @ + 1])
  ELSE s

\* Scene.tsx tick(now): no renderer, and getIsStill is not called.
tick_noCatchUp(s, t) ==
  LET s1 == requestAnimationFrame(Ran(s))
      s2 == [s1 EXCEPT !.acc = @ + (t - s.last), !.last = t,
                       !.asked = FALSE, !.rendered = FALSE]
  IN IF s2.acc >= frameDur
     THEN [s2 EXCEPT !.acc = @ - frameDur,
                     !.frame = (@ + 1) % FRAME_COUNT,
                     !.src = (s2.frame + 1) % FRAME_COUNT,
                     !.advances = @ + 1]
     ELSE s2

tick(s, t) ==
  LET s1 == requestAnimationFrame(Ran(s))
      s2 == [s1 EXCEPT !.acc = @ + (t - s.last), !.last = t,
                       !.asked = FALSE, !.rendered = FALSE]
  IN CatchUp(s2)

\* part_001 animate(): still is what getIsStill() returns now.
animateBottle(s, still, phase) ==
  LET s1 == requestAnimationFrame(Ran(s))
      s2 == [s1 EXCEPT !.asked = TRUE, !.saw = still]
      s3 == IF still THEN [s2 EXCEPT !.rot = @ + 1, !.posY = Bob(phase)]
            ELSE s2
  IN [s3 EXCEPT !.rendered = TRUE]

\* part_002 animate(): getIsStill() is called only once the model is loaded.
animate(s, still, phase) ==
  LET s1 == requestAnimationFrame(Ran(s))
      s2 == IF s1.model
            THEN IF still
                 THEN [s1 EXCEPT !.asked = TRUE, !.saw = still,
                                 !.rot = @ + 1, !.posY = Bob(phase)]
                 ELSE [s1 EXCEPT !.asked = TRUE, !.saw = still, !.posY = 0]
            ELSE [s1 EXCEPT !.asked = FALSE, !.prot = @ + 1]
  IN [s2 EXCEPT !.rendered = TRUE]

BottleResources == {"renderer", "groundGeom", "groundMat", "bottleGeom",
                    "bottleMat", "labelGeom", "labelMat"}

GlbResources == {"renderer", "controls", "groundGeom", "groundMat",
                 "placeholderGeom", "placeholderMat"}

\* The effect body of each variant, up to its return.
setup(kind, still) ==
  IF kind = "image"
  THEN requestAnimationFrame([NoScene EXCEPT !.kind = kind, !.phase = "live"])
  ELSE IF kind = "bottle"
  THEN animateBottle([NoScene EXCEPT !.kind = kind, !.phase = "live",
                                     !.objects = {"ground", "bottle", "label"},
                                     !.live = BottleResources], still, 0)
  ELSE animate([NoScene EXCEPT !.kind = kind, !.phase = "live",
                               !.objects = {"ground", "placeholder"},
                               !.live = GlbResources,
                               !.load = "pending", !.loads = 1], still, 0)

\* part_002 loader.load's success callback; nothing in it looks at whether
\* the effect was cleaned up.
onLoad(s) ==
  [s EXCEPT !.load = "loaded", !.model = TRUE,
            !.objects = (@ \cup {"model"}) \ {"placeholder"},
            !.live = (@ \cup {"model"}) \ {"placeholderGeom", "placeholderMat"}]

\* part_002 loader.load's error callback: console.error only.
onError_dropPlaceholder(s) ==
  [s EXCEPT !.load = "failed", !.logged = @ + 1,
            !.objects = @ \ {"placeholder"},
            !.live = @ \ {"placeholderGeom", "placeholderMat"}]

onError(s) == [s EXCEPT !.load = "failed", !.logged = @ + 1]

\* The function each effect returns.
cleanup(s) ==
  LET s1 == [cancelAnimationFrame(s, s.raf) EXCEPT !.phase = "torn"]
  IN IF s.kind = "image" THEN s1
     ELSE IF s.kind = "bottle" THEN [s1 EXCEPT !.live = @ \ BottleResources]
     ELSE [s1 EXCEPT !.model = FALSE,
                     !.objects = @ \ {"model", "placeholder"},
                     !.live = IF s.model THEN @ \ (GlbResources \cup {"model"})
                              ELSE @ \ GlbResources]

\* ---------------------------------------------------------------- Init
NoEvt == [kind |-> "none", wrote |-> 0, attempted |-> 0, pouring |-> FALSE,
          pitch |-> NoPitch, window |-> "none", sinceWrite |-> -1,
          sinceAttempt |-> -1]

InitRefs ==
  /\ mounted = TRUE
  /\ started = FALSE
  /\ audioRef = FALSE
  /\ audioCtxRef = FALSE
  /\ lastPlayRef = 0
  /\ lastGRef = ZeroVec
  /\ stillRef = TRUE
  /\ calls = <<>>
  /\ listeners = <<>>
  /\ now = 0
  /\ motionRequests = 0
  /\ alerts = 0
  /\ pendingPlays = 0
  /\ playingRef = FALSE
  /\ beeps = 0
  /\ lastWrite = -1
  /\ lastAttempt = -1
  /\ sinceCheck = "none"
  /\ lastEvt = NoEvt
  /\ fed = 0
  /\ plays = 0
  /\ scene = NoScene

Init == env \in Envs /\ InitRefs

\* ------------------------------------------------------- startSensors
NewCall(pc) == [pc |-> pc, granted |-> FALSE, listener |-> 0]

DialogOpen == \E a \in 1..Len(calls) : calls[a].pc \in {"motionPerm", "orientPerm"}

\* The click: startSensors runs initAudio up to its await of resume().
\* page.tsx constructs (window.AudioContext || webkitAudioContext) unguarded,
\* which throws when neither exists; part_000 guards the constructor.
Click ==
  /\ mounted /\ ~started /\ ~DialogOpen
  /\ Len(calls) < MaxActivations
  /\ IF env.variant = "page" /\ ~audioCtxRef /\ ~env.audioCtor
     THEN /\ calls' = Append(calls, NewCall("threw"))
          /\ UNCHANGED <<audioRef, audioCtxRef>>
     ELSE /\ calls' = Append(calls, NewCall("resume"))
          /\ audioCtxRef' = (audioCtxRef \/ env.audioCtor)
          /\ audioRef' = TRUE
  /\ UNCHANGED <<env, scene, plays, mounted, started, lastPlayRef, lastGRef, stillRef,
                 listeners, now, motionRequests, alerts, pendingPlays,
                 playingRef, beeps, lastWrite, lastAttempt, sinceCheck,
                 lastEvt, fed>>

\* window.addEventListener("devicemotion", onMotion); setStarted(true).
\* The closure's lastStillCheck starts at 0. The returned cleanup goes to
\* the click handler's caller, which drops it.
Attach(a, granted) ==
  /\ listeners' = Append(listeners, 0)
  /\ calls' = [calls EXCEPT ![a].pc = "attached", ![a].granted = granted,
                            ![a].listener = Len(listeners) + 1]
  /\ started' = IF mounted THEN TRUE ELSE started

\* After the motion permission step: the best-effort orientation request.
AfterMotion(a, granted) ==
  IF env.orientPerm
  THEN /\ calls' = [calls EXCEPT ![a].pc = "orientPerm",
                                 ![a].granted = granted]
       /\ UNCHANGED <<listeners, started>>
  ELSE Attach(a, granted)

\* resume() settled (either way): initAudio returns, the permission flow runs.
ResumeSettled(a) ==
  /\ a \in 1..Len(calls) /\ calls[a].pc = "resume"
  /\ IF env.motionPerm
     THEN /\ calls' = [calls EXCEPT ![a].pc = "motionPerm"]
          /\ motionRequests' = motionRequests + 1
          /\ UNCHANGED <<listeners, started>>
     ELSE /\ AfterMotion(a, FALSE)
          /\ UNCHANGED motionRequests
  /\ UNCHANGED <<env, scene, plays, mounted, audioRef, audioCtxRef, lastPlayRef, lastGRef,
                 stillRef, now, alerts, pendingPlays, playingRef, beeps,
                 lastWrite, lastAttempt, sinceCheck, lastEvt, fed>>

Responses == {"granted", "denied", "prompt", "reject"}

\* DeviceMotionEvent.requestPermission() settled with resp.
MotionPermSettled_noReturn(a, resp) ==
  /\ a \in 1..Len(calls) /\ calls[a].pc = "motionPerm"
  /\ alerts' = IF resp = "granted" THEN alerts ELSE alerts + 1
  /\ listeners' = Append(listeners, 0)
  /\ calls' = [calls EXCEPT ![a].pc = IF resp = "reject" THEN "failed"
                                      ELSE IF resp = "granted" THEN "attached"
                                      ELSE "denied",
                            ![a].granted = (resp = "granted"),
                            ![a].listener = Len(listeners) + 1]
  /\ started' = IF mounted THEN TRUE ELSE started
  /\ UNCHANGED <<env, scene, plays, mounted, audioRef, audioCtxRef, lastPlayRef, lastGRef,
                 stillRef, now, motionRequests, pendingPlays, playingRef,
                 beeps, lastWrite, lastAttempt, sinceCheck, lastEvt, fed>>

MotionPermSettled(a, resp) ==
  /\ a \in 1..Len(calls) /\ calls[a].pc = "motionPerm"
  /\ IF resp = "granted"
     THEN /\ AfterMotion(a, TRUE)
          /\ UNCHANGED alerts
     ELSE /\ alerts' = alerts + 1
          /\ calls' = [calls EXCEPT ![a].pc = IF resp = "reject" THEN "failed"
                                              ELSE "denied"]
          /\ UNCHANGED <<listeners, started>>
  /\ UNCHANGED <<env, scene, plays, mounted, audioRef, audioCtxRef, lastPlayRef, lastGRef,
                 stillRef, now, motionRequests, pendingPlays, playingRef,
                 beeps, lastWrite, lastAttempt, sinceCheck, lastEvt, fed>>

\* DeviceOrientationEvent.requestPermission() settled; the outcome is ignored.
OrientPermSettled(a) ==
  /\ a \in 1..Len(calls) /\ calls[a].pc = "orientPerm"
  /\ Attach(a, calls[a].granted)
  /\ UNCHANGED <<env, scene, plays, mounted, audioRef, audioCtxRef, lastPlayRef, lastGRef,
                 stillRef, now, motionRequests, alerts, pendingPlays,
                 playingRef, beeps, lastWrite, lastAttempt, sinceCheck,
                 lastEvt, fed>>

\* Home is unmounted. Nothing holds startSensors' cleanup, so the window's
\* listeners stay; only React state stops changing.
Teardown ==
  /\ mounted
  /\ mounted' = FALSE
  /\ UNCHANGED <<env, scene, plays, started, audioRef, audioCtxRef, lastPlayRef, lastGRef,
                 stillRef, calls, listeners, now, motionRequests, alerts,
                 pendingPlays, playingRef, beeps, lastWrite, lastAttempt,
                 sinceCheck, lastEvt, fed>>

\* ------------------------------------------------------ devicemotion
\* The payloads of the model: absent, null components, and vectors whose
\* L1 distances fall on both sides of 0.25 and on it.
Flat == Ag(Num(0), Num(0), Num(100))

Payloads == {NoAg,
             Ag(Num(-100), Null, Num(10)),
             Flat,
             Ag(Num(0), Num(0), Num(125)),
             Ag(Num(-100), Num(0), Num(10))}

\* How the samples of a window moved: "none" before any sample, "moving" while
\* every delta is >= 0.25, "quiet" while every delta is < 0.25.
Window(w, quiet) ==
  IF w = "none" THEN (IF quiet THEN "quiet" ELSE "moving")
  ELSE IF w = "quiet" /\ quiet THEN "quiet"
  ELSE IF w = "moving" /\ ~quiet THEN "moving"
  ELSE "mixed"

\* Time from the logged instant to t, -1 when nothing is logged.
Since(t, logged) == IF logged < 0 THEN -1 ELSE t - logged

\* absent: no accelerationIncludingGravity; malformed: a null component.
Kind(e) ==
  IF ~e.present THEN "absent"
  ELSE IF Null \in {e.x, e.y, e.z} THEN "malformed"
  ELSE "sample"

\* One devicemotion event with payload e, delivered to every listener at
\* instant t (with no listener registered nothing of the page runs, and no
\* clock is read).
DeviceMotion(e, t) ==
  LET r0 == [lastG |-> lastGRef, still |-> stillRef, lastPlay |-> lastPlayRef,
             lsc |-> listeners, write |-> lastWrite, attempt |-> lastAttempt,
             el |-> audioRef, ctx |-> audioCtxRef, pending |-> pendingPlays,
             beeps |-> beeps, handled |-> 0, wrote |-> 0, attempted |-> 0,
             pouring |-> FALSE, pitch |-> NoPitch]
      g == GVec(Coalesce(e.x), Coalesce(e.y), Coalesce(e.z))
      quiet == Delta(g, lastGRef) < StillThreshold
  IN \E r \in {Dispatch(r0, 1, e, t, Wall(t))} :
     LET win == IF r.handled > 0 THEN Window(sinceCheck, quiet) ELSE sinceCheck IN
     /\ t >= now
     /\ now' = IF Len(listeners) = 0 THEN now ELSE t
     /\ lastGRef' = r.lastG
     /\ stillRef' = r.still
     /\ lastPlayRef' = r.lastPlay
     /\ listeners' = r.lsc
     /\ lastWrite' = r.write
     /\ lastAttempt' = r.attempt
     /\ pendingPlays' = r.pending
     /\ beeps' = r.beeps
     /\ sinceCheck' = IF r.wrote > 0 THEN "none" ELSE win
     /\ lastEvt' = IF Len(listeners) = 0 THEN lastEvt
                   ELSE [kind |-> Kind(e), wrote |-> r.wrote,
                         attempted |-> r.attempted, pouring |-> r.pouring,
                         pitch |-> r.pitch, window |-> win,
                         sinceWrite |-> Since(t, lastWrite),
                         sinceAttempt |-> Since(Wall(t), lastAttempt)]
     /\ UNCHANGED <<env, scene, plays, mounted, started, audioRef, audioCtxRef, calls,
                    motionRequests, alerts, playingRef>>

\* ------------------------------------------------- playPour, continued
\* el.play() resolved: page.tsx sets playingRef and el.onended; return.
PlayResolved_alsoBeep ==
  /\ pendingPlays > 0
  /\ pendingPlays' = pendingPlays - 1
  /\ plays' = plays + 1
  /\ beeps' = IF audioCtxRef THEN beeps + 1 ELSE beeps
  /\ playingRef' = IF env.variant = "page" THEN TRUE ELSE playingRef
  /\ UNCHANGED <<env, scene, mounted, started, audioRef, audioCtxRef, lastPlayRef,
                 lastGRef, stillRef, calls, listeners, now, motionRequests,
                 alerts, lastWrite, lastAttempt, sinceCheck, lastEvt, fed>>

PlayResolved ==
  /\ pendingPlays > 0
  /\ pendingPlays' = pendingPlays - 1
  /\ plays' = plays + 1
  /\ playingRef' = IF env.variant = "page" THEN TRUE ELSE playingRef
  /\ UNCHANGED <<env, scene, mounted, started, audioRef, audioCtxRef, lastPlayRef,
                 lastGRef, stillRef, calls, listeners, now, motionRequests,
                 alerts, beeps, lastWrite, lastAttempt, sinceCheck, lastEvt, fed>>

\* el.play() rejected: the catch falls through to the WebAudio beep, which
\* needs a context.
PlayRejected_rollback ==
  /\ pendingPlays > 0
  /\ pendingPlays' = pendingPlays - 1
  /\ beeps' = IF audioCtxRef THEN beeps + 1 ELSE beeps
  /\ lastPlayRef' = IF audioCtxRef THEN lastPlayRef ELSE 0
  /\ UNCHANGED <<env, scene, plays, mounted, started, audioRef, audioCtxRef,
                 lastGRef, stillRef, calls, listeners, now, motionRequests,
                 alerts, playingRef, lastWrite, lastAttempt, sinceCheck,
                 lastEvt, fed>>

PlayRejected ==
  /\ pendingPlays > 0
  /\ pendingPlays' = pendingPlays - 1
  /\ beeps' = IF audioCtxRef THEN beeps + 1 ELSE beeps
  /\ UNCHANGED <<env, scene, plays, mounted, started, audioRef, audioCtxRef, lastPlayRef,
                 lastGRef, stillRef, calls, listeners, now, motionRequests,
                 alerts, playingRef, lastWrite, lastAttempt, sinceCheck,
                 lastEvt, fed>>

\* el.onended
AudioEnded ==
  /\ playingRef
  /\ playingRef' = FALSE
  /\ UNCHANGED <<env, scene, plays, mounted, started, audioRef, audioCtxRef, lastPlayRef,
                 lastGRef, stillRef, calls, listeners, now, motionRequests,
                 alerts, pendingPlays, beeps, lastWrite, lastAttempt,
                 sinceCheck, lastEvt, fed>>

\* ------------------------------------------------------- Scene, actions
\* The effect runs: <Scene getIsStill={() => stillRef.current} />.
SceneSetup(kind) ==
  /\ scene.phase = "unset"
  /\ scene' = setup(kind, stillRef)
  /\ UNCHANGED pageVars

\* The gaps between tick timestamps: none, short, around one frame, and a
\* whole cycle of the sequence and more.
TickGaps == {0, 1, frameDur - 1, frameDur, frameDur + 1, 2 * frameDur,
             FRAME_COUNT * frameDur + 1}

\* What a frame reads from its clock: the gap since the last tick (image), or
\* the quarter period the elapsed time falls on.
FrameInputs == IF scene.kind = "image" THEN TickGaps ELSE 0..3

\* The browser runs the queued callback h.
SceneFrame(h, x) ==
  /\ h \in scene.queued
  /\ scene.frames < MaxFrames
  /\ LET s0 == [scene EXCEPT !.queued = @ \ {h}]
     IN scene' = IF scene.kind = "image" THEN tick(s0, scene.last + x)
                 ELSE IF scene.kind = "bottle"
                 THEN animateBottle(s0, stillRef, x)
                 ELSE animate(s0, stillRef, x)
  /\ UNCHANGED pageVars

\* The model file arrived and parsed.
LoadDone ==
  /\ scene.load = "pending"
  /\ scene' = onLoad(scene)
  /\ UNCHANGED pageVars

\* The model file failed to load.
LoadFailed ==
  /\ scene.load = "pending"
  /\ scene' = onError(scene)
  /\ UNCHANGED pageVars

\* React runs the effect's cleanup (unmount).
SceneTeardown ==
  /\ scene.phase = "live"
  /\ scene' = cleanup(scene)
  /\ UNCHANGED pageVars

\* ---------------------------------------------------------------- Spec
\* The whole page on every platform: both start activations, the permission
\* flow, unmount, the play promise, and devicemotion events drawn from
\* CorePayloads at CoreInstants.
CorePayloads == {NoAg, Flat, Ag(Num(-100), Num(0), Num(10))}

CoreInstants == {0, StillWindow + 1}

Next ==
  \/ Click
  \/ \E a \in 1..MaxActivations : ResumeSettled(a)
  \/ \E a \in 1..MaxActivations : \E resp \in Responses :
       MotionPermSettled(a, resp)
  \/ \E a \in 1..MaxActivations : OrientPermSettled(a)
  \/ Teardown
  \/ \E e \in CorePayloads : \E t \in CoreInstants :
       DeviceMotion(e, t) /\ UNCHANGED fed
  \/ PlayResolved
  \/ PlayRejected
  \/ AudioEnded

Spec == Init /\ [][Next]_vars

\* The classifier on one platform without permission APIs (the classifier
\* reads nothing of env): the start activations and devicemotion events drawn
\* from Payloads at Instants.
Desktop == [variant |-> "page", audioCtor |-> TRUE, motionPerm |-> FALSE,
            orientPerm |-> FALSE]

InitMotion == env = Desktop /\ InitRefs

NextMotion ==
  \/ Click
  \/ \E a \in 1..MaxActivations : ResumeSettled(a)
  \/ \E e \in Payloads : \E t \in Instants :
       DeviceMotion(e, t) /\ UNCHANGED fed

SpecMotion == InitMotion /\ [][NextMotion]_vars

\* The pitch computation over a grid of vectors: one platform, and one
\* devicemotion event whose components range over the grid and null.
GridComps == {Null} \cup {Num(v) : v \in -MaxGrid..MaxGrid}

GridPayloads == {Ag(x, y, z) : x \in GridComps, y \in {Num(v) : v \in -MaxGrid..MaxGrid},
                               z \in GridComps}

PitchSample(e) == fed = 0 /\ fed' = 1 /\ Len(listeners) > 0 /\ DeviceMotion(e, 0)

NextPitch ==
  \/ Click
  \/ \E a \in 1..MaxActivations : ResumeSettled(a)
  \/ \E e \in GridPayloads : PitchSample(e)

SpecPitch == InitMotion /\ [][NextPitch]_vars

\* The end-to-end scenario: one start activation, then (0,0,1) at 10
\* samples per second for 2 seconds, then one sample of (-1, 0, 0.1). The
\* first sample arrives at any of ScenarioStarts.
ScenarioRate == 1000 \div 10     \* ms between samples at 10 samples per second

ScenarioLength == 2 * 10         \* samples in 2 seconds

ScenarioStarts == {0, StillWindow, StillWindow + 1, PlayDebounce}
                  \cup {k * (StillWindow + ScenarioRate) : k \in 1..MaxStarts}

ScenarioClick == Len(calls) = 0 /\ Click

ScenarioSample ==
  /\ Len(listeners) > 0
  /\ fed <= ScenarioLength
  /\ fed' = fed + 1
  /\ \E t \in (IF fed = 0 THEN ScenarioStarts ELSE {now + ScenarioRate}) :
       DeviceMotion(IF fed < ScenarioLength THEN Flat
                    ELSE Ag(Num(-100), Num(0), Num(10)), t)

NextScenario ==
  \/ ScenarioClick
  \/ ResumeSettled(1)
  \/ ScenarioSample

SpecScenario == InitMotion /\ [][NextScenario]_vars

\* The pour sound on the platforms without permission APIs, with and without
\* an AudioContext, in both page variants: one start activation, pouring and
\* flat samples around the debounce boundary, and the outcomes of el.play().
Pour == Ag(Num(-100), Num(0), Num(10))

AudioInstants == {0, PlayDebounce - 1, PlayDebounce, 2 * PlayDebounce}

InitAudio == env \in {v \in Envs : ~v.motionPerm} /\ InitRefs

NextAudio ==
  \/ ScenarioClick
  \/ ResumeSettled(1)
  \/ \E e \in {Pour, Flat} : \E t \in AudioInstants :
       DeviceMotion(e, t) /\ UNCHANGED fed
  \/ PlayResolved
  \/ PlayRejected
  \/ AudioEnded

SpecAudio == InitAudio /\ [][NextAudio]_vars

\* The Scene beside the classifier: one start activation, samples that
\* change isStill, and the Scene's setup, frames, model load and cleanup in
\* each of its variants.
NextScene ==
  \/ ScenarioClick
  \/ ResumeSettled(1)
  \/ \E t \in CoreInstants : DeviceMotion(Flat, t) /\ UNCHANGED fed
  \/ \E kind \in SceneKinds : SceneSetup(kind)
  \/ \E h \in 1..(MaxFrames + 1) : \E x \in FrameInputs : SceneFrame(h, x)
  \/ LoadDone
  \/ LoadFailed
  \/ SceneTeardown

SpecScene == InitMotion /\ [][NextScene]_vars

\* ================================================================ claims
\* The reference predicate of the pouring decision: pitch > 60 degrees, that
\* is x < 0 and x^2 > 3 (y^2 + z^2).
RefPouring(g) == g.x < 0 /\ g.x * g.x > 3 * (g.y * g.y + g.z * g.z)

\* The vector of a payload with 0 for each null component.
ZeroFilled(e) ==
  GVec(IF e.x = Null THEN 0 ELSE e.x[1], IF e.y = Null THEN 0 ELSE e.y[1],
       IF e.z = Null THEN 0 ELSE e.z[1])

\* C1: a devicemotion event makes a playback attempt exactly when its sample
\* pours (pitch > 60 degrees) and no attempt was made before or the previous
\* one lies at least 1000 ms back; it never makes two, so any two attempts
\* are at least 1000 ms apart.
C1_Debounce ==
  lastEvt.kind # "none" =>
    /\ lastEvt.attempted =
         IF /\ lastEvt.kind # "absent"
            /\ RefPouring(lastGRef)
            /\ (lastEvt.sinceAttempt < 0 \/ lastEvt.sinceAttempt >= PlayDebounce)
         THEN 1 ELSE 0
    /\ lastEvt.attempted >= 1 => lastAttempt = Wall(now) /\ lastPlayRef = lastAttempt

\* C1 witness: a pouring sample exactly 1000 ms after an attempt made a new
\* attempt.
C1_Witness ==
  /\ lastEvt.kind = "sample"
  /\ lastEvt.pouring
  /\ lastEvt.attempted = 1
  /\ lastEvt.sinceAttempt = PlayDebounce

\* C5: the pouring decision of onMotion is the reference predicate; the pitch
\* is never NaN, is 0 for the zero vector and for every vector with x = 0,
\* is 90 for a vector along -x; and the decision is the same for every vector
\* of the same x and the same y^2 + z^2 (roll) and for every positive multiple.
C5_PitchDecision ==
  lastEvt.kind # "none" =>
    LET g == lastGRef
        p == lastEvt.pitch
    IN /\ ~p.nan
       /\ lastEvt.pouring <=> RefPouring(g)
       /\ g.x = 0 => PitchIsZero(p) /\ ~lastEvt.pouring
       /\ (g.x < 0 /\ g.y = 0 /\ g.z = 0) => PitchIs90(p) /\ lastEvt.pouring
       /\ \A y, z \in -MaxGrid..MaxGrid :
            y * y + z * z = g.y * g.y + g.z * g.z =>
              PitchOver60(computePitchRoll(GVec(g.x, y, z))) = lastEvt.pouring
       /\ \A k \in 1..3 :
            PitchOver60(computePitchRoll(GVec(k * g.x, k * g.y, k * g.z)))
              = lastEvt.pouring
       /\ lastEvt.attempted = IF RefPouring(g) THEN 1 ELSE 0

\* C5 witness: the vector (-3, 0, 1) rolled a quarter turn, which pours.
C5_Witness ==
  /\ lastEvt.kind = "sample"
  /\ lastGRef = GVec(-3, 1, 0)
  /\ lastEvt.pouring

\* C6 as stated: an event whose acceleration is absent or has a null
\* component changes nothing of the classifier and triggers no playback.
C6_Original ==
  [][\A e \in Payloads : \A t \in Instants :
       (DeviceMotion(e, t) /\ Kind(e) \in {"absent", "malformed"}) =>
         UNCHANGED <<lastGRef, stillRef, listeners, lastPlayRef>>]_vars

\* C6 amended: an event whose acceleration is absent changes nothing and
\* triggers no playback; an event with a null component is not discarded: its
\* nulls are read as 0, lastVector becomes that vector, and it makes a playback
\* attempt under the same rule as any sample.
C6_Amended ==
  [][\A e \in {p \in Payloads : Kind(p) # "sample"} : \A t \in Instants :
       (DeviceMotion(e, t) /\ Len(listeners) > 0) =>
         /\ Kind(e) = "absent" =>
              UNCHANGED <<lastGRef, stillRef, listeners, lastPlayRef,
                          lastWrite, lastAttempt, pendingPlays, beeps>>
         /\ Kind(e) = "malformed" =>
              /\ lastGRef' = ZeroFilled(e)
              /\ (lastAttempt' # lastAttempt) <=>
                   /\ RefPouring(ZeroFilled(e))
                   /\ (lastAttempt < 0 \/ Wall(t) - lastAttempt >= PlayDebounce)]_vars

\* C6 witness: a sample with a null component triggered a playback attempt.
C6_Witness ==
  /\ lastEvt.kind = "malformed"
  /\ lastEvt.attempted = 1
  /\ lastGRef = GVec(-100, 0, 10)

\* C2 as stated: any two writes to isStill are more than 120 ms apart: an
\* event writes it at most once, and only more than 120 ms after the write
\* before.
C2_OneWritePerWindow ==
  /\ lastEvt.wrote <= 1
  /\ (lastEvt.wrote >= 1 /\ lastEvt.sinceWrite >= 0) =>
       lastEvt.sinceWrite > StillWindow

\* C3 as stated: through the 20 samples of (0,0,1) isStill is true and no
\* playback attempt is made; the following sample of (-1, 0, 0.1) pours and
\* makes exactly one attempt.
C3_Scenario ==
  /\ fed \in 1..ScenarioLength => stillRef /\ lastAttempt = -1
  /\ fed = ScenarioLength + 1 =>
       /\ lastEvt.pouring
       /\ lastEvt.attempted = 1
       /\ lastEvt.sinceAttempt = -1
       /\ lastAttempt = Wall(now)

\* C4 as stated: when a stillness check runs, isStill is false if every
\* sample since the check before had a delta >= 0.25, and true if every one
\* had a delta < 0.25.
C4_Classified ==
  lastEvt.wrote >= 1 =>
    /\ lastEvt.window = "moving" => ~stillRef
    /\ lastEvt.window = "quiet" => stillRef

\* C7 as stated: a listener is attached only after initAudio has run (the
\* audio element exists), and no start activation ends in initAudio without
\* going on to the permission flow and attachment.
C7_AudioBeforeListener ==
  /\ Len(listeners) > 0 => audioRef
  /\ lastAttempt >= 0 => audioRef
  /\ \A a \in 1..Len(calls) : calls[a].pc # "threw"

\* C8 as stated: a start activation that has ended attached its listener if
\* and only if the motion permission API is absent or its request resolved
\* to "granted"; otherwise the user was alerted; and without a listener
\* isStill and lastPlayTimestamp keep their initial values.
C8_PermissionGate ==
  /\ \A a \in 1..Len(calls) :
       calls[a].pc \in {"attached", "denied", "failed", "threw"} =>
         /\ (calls[a].pc = "attached")
              <=> (~env.motionPerm \/ calls[a].granted)
         /\ calls[a].pc # "attached" => alerts >= 1 /\ calls[a].listener = 0
  /\ started => Len(listeners) > 0
  /\ Len(listeners) = 0 => stillRef /\ lastPlayRef = 0

\* C9 as stated: once a start activation has ended in denial or rejection,
\* no step requests the permission again or attaches a listener.
C9_Original ==
  [][(\E a \in 1..Len(calls) : calls[a].pc \in {"denied", "failed"}) =>
       /\ motionRequests' = motionRequests
       /\ Len(listeners') = Len(listeners)]_vars

\* The start activations in the given states.
CallsAt(pcs) == {a \in 1..Len(calls) : calls[a].pc \in pcs}

\* C9 amended: a denied or failed request ends its own start activation only:
\* the user is alerted once for it, that activation attaches no listener and
\* requests the permission once (no retry of its own); every listener belongs
\* to an activation whose request was granted or not needed. A later start
\* activation may request the permission again.
C9_Amended ==
  /\ \A a \in CallsAt({"denied", "failed"}) :
       ~calls[a].granted /\ calls[a].listener = 0
  /\ alerts = Cardinality(CallsAt({"denied", "failed"}))
  /\ Len(listeners) = Cardinality(CallsAt({"attached"}))
  /\ \A a \in CallsAt({"attached"}) : env.motionPerm => calls[a].granted
  /\ motionRequests <= Len(calls)
  /\ env.motionPerm =>
       motionRequests = Cardinality(CallsAt({"motionPerm", "orientPerm",
                                             "attached", "denied", "failed"}))

\* C9 witness: after a denied activation a second one requested the
\* permission again, was granted and attached its listener.
C9_Witness ==
  /\ Len(calls) = 2
  /\ calls[1].pc = "denied"
  /\ calls[2].pc = "attached"
  /\ motionRequests = 2
  /\ Len(listeners) = 1

\* C10 as stated: once Home is unmounted no devicemotion listener of
\* startSensors is registered.
C10_ListenerRemoved ==
  ~mounted => Len(listeners) = 0

\* C11 as stated: once the Scene's cleanup has run, no resource the scene
\* created is live and no model is in the scene, whenever the model load
\* completes.
C11_Released ==
  scene.phase = "torn" =>
    /\ scene.live = {}
    /\ "model" \notin scene.objects
    /\ ~scene.model

\* C12: while the Scene is mounted exactly one frame callback is pending and
\* it is the one whose handle raf holds; after cleanup none is pending and no
\* frame has run since (no src update, no model mutation, no render).
C12_NoFrameAfterTeardown ==
  /\ scene.phase = "live" => scene.queued = {scene.raf}
  /\ scene.phase = "torn" => scene.queued = {} /\ ~scene.late

\* C12 witness: cleanup ran after the loop had re-scheduled itself in frames.
C12_Witness ==
  /\ scene.phase = "torn"
  /\ scene.frames >= 2
  /\ scene.raf >= 2
  /\ scene.queued = {}

\* C13 as stated: every frame (the one run by setup included) calls
\* getIsStill, gets the value isStill has at that moment, and renders.
C13_FreshEveryFrame ==
  [][scene'.frames = scene.frames + 1 =>
       /\ scene'.asked
       /\ scene'.saw = stillRef
       /\ scene'.kind # "image" => scene'.rendered]_vars

\* C14 as stated: a frame on which getIsStill returns false leaves the
\* rotation unchanged and puts the vertical offset back on the baseline; a
\* frame on which it returns true adds one rotation step and sets the offset
\* to the baseline plus the bob of the elapsed time.
C14_FrameEffect ==
  [][(scene'.frames = scene.frames + 1 /\ scene'.asked) =>
       IF scene'.saw
       THEN /\ scene'.rot = scene.rot + 1
            /\ scene'.posY \in {Bob(x) : x \in 0..3}
       ELSE /\ scene'.rot = scene.rot
            /\ scene'.posY = 0]_vars

\* C15: once the model load has failed, the model stays absent, the load was
\* made once and logged once, and while the Scene is mounted the placeholder
\* is in the scene with its resources live, the loop stays scheduled, and
\* every frame turns the placeholder and renders.
C15_PlaceholderStays ==
  scene.load = "failed" =>
    /\ ~scene.model /\ "model" \notin scene.objects
    /\ scene.loads = 1 /\ scene.logged = 1
    /\ scene.prot = scene.frames /\ scene.rot = 0
    /\ scene.phase = "live" =>
         /\ "placeholder" \in scene.objects
         /\ {"placeholderGeom", "placeholderMat"} \subseteq scene.live
         /\ scene.queued = {scene.raf}
         /\ scene.rendered

\* C15 witness: frames have run after the load failed, the Scene still mounted.
C15_Witness ==
  /\ scene.load = "failed"
  /\ scene.phase = "live"
  /\ scene.after >= 2
  /\ scene.prot >= 3

\* C16: a playback attempt starts the audio element's play() and no tone; with
\* no element it plays the fallback tone if there is a context and otherwise
\* does nothing. A play() that resolves adds no tone; a play() that rejects
\* adds the fallback tone if there is a context and otherwise nothing. So
\* every attempt ends in at most one sound, and nothing else makes a sound.
C16_OneSoundPerAttempt ==
  [][LET dp == pendingPlays' - pendingPlays
         tone == IF audioCtxRef THEN 1 ELSE 0
     IN IF lastAttempt' # lastAttempt
        THEN /\ plays' = plays
             /\ IF audioRef THEN dp = 1 /\ beeps' = beeps
                ELSE dp = 0 /\ beeps' = beeps + tone
        ELSE \/ dp = 0 /\ plays' = plays /\ beeps' = beeps
             \/ dp = -1 /\ plays' = plays + 1 /\ beeps' = beeps
             \/ dp = -1 /\ plays' = plays /\ beeps' = beeps + tone]_vars

\* C16 witness: of two attempts one played the file and the other, its
\* play() rejected, played the fallback tone.
C16_Witness ==
  /\ plays = 1
  /\ beeps = 1
  /\ pendingPlays = 0
  /\ lastAttempt = Wall(PlayDebounce)

\* C17 as stated: an event with a present sample sets lastVector to the
\* sample's vector; if 120 ms or less have passed since the last stillness
\* check (0 before any) isStill and the time of the last check are unchanged,
\* otherwise isStill becomes (delta < 0.25) for the delta between this sample
\* and the one before it, and the time of the last check becomes now.
C17_SampleEffect ==
  [][\A e \in {p \in Payloads : Kind(p) # "absent"} : \A t \in Instants :
       (DeviceMotion(e, t) /\ Len(listeners) > 0) =>
         LET g == ZeroFilled(e)
             lastStillCheck == IF lastWrite < 0 THEN 0 ELSE lastWrite
         IN /\ lastGRef' = g
            /\ IF t - lastStillCheck <= StillWindow
               THEN stillRef' = stillRef /\ lastWrite' = lastWrite
               ELSE /\ stillRef' = (Delta(g, lastGRef) < StillThreshold)
                    /\ lastWrite' = t]_vars

\* C18 as stated: at most one devicemotion listener is registered, whatever
\* the number and timing of the start activations.
C18_OneListener ==
  Len(listeners) <= 1

\* C19: lastPlayTimestamp is the time of the latest attempt (0 before any),
\* whatever became of the attempt; a pouring sample less than 1000 ms after
\* an attempt makes none, also when that attempt produced no sound, and one
\* 1000 ms or more after it makes a new attempt, also when the earlier
\* el.play() is still pending.
C19_StampKept ==
  /\ lastPlayRef = IF lastAttempt < 0 THEN 0 ELSE lastAttempt
  /\ (lastEvt.kind # "none" /\ lastEvt.pouring) =>
       /\ lastEvt.sinceAttempt \in 0..(PlayDebounce - 1) => lastEvt.attempted = 0
       /\ lastEvt.sinceAttempt >= PlayDebounce => lastEvt.attempted = 1

\* C19 witness: the attempt's play() rejected with no context for the tone
\* (no sound), and a pouring sample 999 ms after it was suppressed.
C19_Witness ==
  /\ lastEvt.pouring
  /\ lastEvt.attempted = 0
  /\ lastEvt.sinceAttempt = PlayDebounce - 1
  /\ plays = 0 /\ beeps = 0 /\ pendingPlays = 0
  /\ ~audioCtxRef

\* C20: in the image sequence, after every tick the frame index is within
\* 0..FRAME_COUNT-1, 0 <= acc < frameDur, the number of frame advances made so
\* far is floor(elapsed / frameDur) for the time elapsed since setup, and the
\* displayed frame is that number modulo FRAME_COUNT.
C20_TickInvariant ==
  scene.kind = "image" =>
    /\ scene.frame \in 0..(FRAME_COUNT - 1)
    /\ 0 <= scene.acc /\ scene.acc < frameDur
    /\ scene.advances = scene.last \div frameDur
    /\ scene.frame = scene.advances % FRAME_COUNT
    /\ scene.src = scene.frame

\* C20 witness: after a long gap and an uneven one the sequence has wrapped
\* around and sits inside a frame.
C20_Witness ==
  /\ scene.kind = "image"
  /\ scene.frames >= 2
  /\ scene.advances > FRAME_COUNT
  /\ scene.acc > 0

====
